---- MODULE Spec2Model ----
(***************************************************************************)
(* Model of src/source/badges.js: a catalogue of badge generators.  Every  *)
(* generator is a function from an options object to either a returned     *)
(* string or a thrown Error; the only state outside a call is the process  *)
(* environment (process.env), which two pairs of generators read.          *)
(*                                                                         *)
(* A JavaScript string is modelled as a sequence of chunks (TLA+ strings): *)
(* caller-supplied strings are one character per chunk, so that escape,    *)
(* split and replace work character by character; text produced by a       *)
(* template literal is a single chunk.  Text() concatenates the chunks, so *)
(* two results are compared byte for byte.                                 *)
(***************************************************************************)
EXTENDS Integers, Sequences, FiniteSets, TLC

\* Longest caller-supplied string that is processed character by character.
MaxLen == 3
\* Most properties of a nodeicoQueryString object.
MaxKeys == 2
\* Longest githubSlug given to githubstar.
MaxSlug == 5

-----------------------------------------------------------------------------
(* JavaScript values *)

Undefined == [type |-> "undefined"]
Null == [type |-> "null"]
Str(chunks) == [type |-> "string", val |-> chunks]
Num(n) == [type |-> "number", val |-> n]
Bool(b) == [type |-> "boolean", val |-> b]
\* An object literal: its properties <<key, value>> in the order written.
Obj(props) == [type |-> "object", val |-> props]
\* A string given whole (a literal of the source or of the caller).
Lit(s) == Str(<<s>>)

RECURSIVE Text(_)
Text(chunks) ==
    IF chunks = <<>> THEN "" ELSE Head(chunks) \o Text(Tail(chunks))

\* ToBoolean
Truthy(v) ==
    CASE v.type = "undefined" -> FALSE
      [] v.type = "null" -> FALSE
      [] v.type = "string" -> Text(v.val) # ""
      [] v.type = "number" -> v.val # 0
      [] v.type = "boolean" -> v.val
      [] v.type = "object" -> TRUE

\* typeof
TypeOf(v) ==
    IF v.type = "null" THEN "object" ELSE v.type

\* ToString of a value, as a template literal applies it to ${v}
toString(v) ==
    CASE v.type = "undefined" -> "undefined"
      [] v.type = "null" -> "null"
      [] v.type = "string" -> Text(v.val)
      [] v.type = "number" -> ToString(v.val)
      [] v.type = "boolean" -> (IF v.val THEN "true" ELSE "false")
      [] v.type = "object" -> "[object Object]"

\* a || b
Or(a, b) ==
    IF Truthy(a) THEN a ELSE b

\* Destructuring of a parameter: a property the object lacks reads undefined.
Get(o, f) ==
    IF f \in DOMAIN o THEN o[f] ELSE Undefined

\* A destructured parameter with a default: f = d
GetDefault(o, f, d) ==
    IF Get(o, f) = Undefined THEN d ELSE Get(o, f)

\* How a call ends.
Return(s) == [kind |-> "return", value |-> s]
Throw(msg) == [kind |-> "throw", value |-> msg]

-----------------------------------------------------------------------------
(* Library functions the source calls *)

Lower == {"a", "b", "c", "d", "e", "f", "g", "h", "i", "j", "k", "l", "m",
          "n", "o", "p", "q", "r", "s", "t", "u", "v", "w", "x", "y", "z"}
Upper == {"A", "B", "C", "D", "E", "F", "G", "H", "I", "J", "K", "L", "M",
          "N", "O", "P", "Q", "R", "S", "T", "U", "V", "W", "X", "Y", "Z"}
Digit == {"0", "1", "2", "3", "4", "5", "6", "7", "8", "9"}

\* The two hex digits of the characters the model escapes.
HexCode ==
    (" " :> "20") @@ ("\n" :> "0A") @@ ("\t" :> "09") @@ ("\"" :> "22")
    @@ ("&" :> "26") @@ ("=" :> "3D") @@ ("/" :> "2F") @@ ("?" :> "3F")
    @@ ("@" :> "40") @@ ("+" :> "2B") @@ (":" :> "3A") @@ ("#" :> "23")

\* Global escape(): converts its argument to a string, then leaves
\* A-Z a-z 0-9 @ * _ + - . / and writes %XX for the rest.
EscapeSafe == Lower \cup Upper \cup Digit \cup {"@", "*", "_", "+", "-", ".", "/"}

escapeChar(c) ==
    IF c \in EscapeSafe THEN c ELSE "%" \o HexCode[c]

escape(v) ==
    CASE v.type = "string" -> Str([i \in 1..Len(v.val) |-> escapeChar(v.val[i])])
      [] v.type = "object" -> Lit("%5Bobject%20Object%5D")
      [] OTHER -> Lit(toString(v))

\* querystring.escape(): leaves A-Z a-z 0-9 - _ . ! ~ * ' ( ) and writes %XX.
QsSafe == Lower \cup Upper \cup Digit \cup {"-", "_", ".", "!", "~", "*", "'", "(", ")"}

qsEscapeChar(c) ==
    IF c \in QsSafe THEN c ELSE "%" \o HexCode[c]

qsEscape(chunks) ==
    Text([i \in 1..Len(chunks) |-> qsEscapeChar(chunks[i])])

\* A property key that is an array index ("0", "1", "10", ...): an object's own
\* keys list these first, in ascending numeric order, before the other keys in
\* insertion order.
DigitValue == ("0" :> 0) @@ ("1" :> 1) @@ ("2" :> 2) @@ ("3" :> 3) @@ ("4" :> 4)
              @@ ("5" :> 5) @@ ("6" :> 6) @@ ("7" :> 7) @@ ("8" :> 8) @@ ("9" :> 9)

IsIndexKey(key) ==
    /\ Len(key) >= 1
    /\ \A i \in 1..Len(key) : key[i] \in Digit
    /\ (Len(key) > 1 => key[1] # "0")

RECURSIVE KeyNumber(_)
KeyNumber(key) ==
    IF key = <<>> THEN 0
    ELSE 10 * KeyNumber(SubSeq(key, 1, Len(key) - 1)) + DigitValue[key[Len(key)]]

\* The positions in props of the index keys, ascending.
RECURSIVE SortIndex(_, _)
SortIndex(props, left) ==
    IF left = {} THEN <<>>
    ELSE LET m == CHOOSE i \in left :
                    \A j \in left : KeyNumber(props[i][1]) <= KeyNumber(props[j][1])
         IN <<m>> \o SortIndex(props, left \ {m})

\* The positions in props of the other keys, in insertion order.
RECURSIVE InsertionOrder(_, _)
InsertionOrder(props, i) ==
    IF i > Len(props) THEN <<>>
    ELSE (IF IsIndexKey(props[i][1]) THEN <<>> ELSE <<i>>) \o InsertionOrder(props, i + 1)

\* Object.keys(obj), as positions in props.
OwnKeys(props) ==
    SortIndex(props, {i \in 1..Len(props) : IsIndexKey(props[i][1])})
        \o InsertionOrder(props, 1)

\* querystring.stringify(obj): escape(key)=escape(value) joined by '&' over
\* the object's own keys; '' for null and for an object without keys.
RECURSIVE JoinPairs(_, _)
JoinPairs(props, order) ==
    IF order = <<>> THEN ""
    ELSE LET p == props[Head(order)]
             pair == qsEscape(p[1]) \o "=" \o qsEscape(p[2])
         IN IF Tail(order) = <<>> THEN pair
            ELSE pair \o "&" \o JoinPairs(props, Tail(order))

stringify(v) ==
    IF v.type = "object" THEN Lit(JoinPairs(v.val, OwnKeys(v.val))) ELSE Lit("")

\* String.prototype.split('/')
RECURSIVE split(_)
split(chunks) ==
    IF \A i \in 1..Len(chunks) : chunks[i] # "/" THEN <<chunks>>
    ELSE LET p == CHOOSE i \in 1..Len(chunks) :
                    chunks[i] = "/" /\ \A j \in 1..(i - 1) : chunks[j] # "/"
         IN <<SubSeq(chunks, 1, p - 1)>> \o split(SubSeq(chunks, p + 1, Len(chunks)))

\* array[i], zero-based: undefined past the end
At(array, i) ==
    IF i + 1 <= Len(array) THEN Str(array[i + 1]) ELSE Undefined

\* s.replace(/-/g, ' ')
replaceDashes(v) ==
    Str([i \in 1..Len(v.val) |-> IF v.val[i] = "-" THEN " " ELSE v.val[i]])

\* s.replace(/\n\s*/g, ''): a newline and the whitespace after it are removed.
Whitespace == {" ", "\t", "\n"}

RECURSIVE stripNewlines(_, _)
stripNewlines(chunks, inRun) ==
    IF chunks = <<>> THEN <<>>
    ELSE IF Head(chunks) = "\n" THEN stripNewlines(Tail(chunks), TRUE)
    ELSE IF inRun /\ Head(chunks) \in Whitespace THEN stripNewlines(Tail(chunks), TRUE)
    ELSE <<Head(chunks)>> \o stripNewlines(Tail(chunks), FALSE)

-----------------------------------------------------------------------------
(* The process environment: process.env, read by saucelabsbm, saucelabs,   *)
(* facebooklike and facebookfollow.  pc, call and outcome hold the caller's *)
(* position, the call it made and how that call ended; earlier is a call    *)
(* with its outcome that the caller has kept to compare a later one with.   *)

VARIABLES env, pc, call, outcome, earlier

vars == <<env, pc, call, outcome, earlier>>

-----------------------------------------------------------------------------
(* Custom badges *)

\* badge with the title attribute written whether or not a title was given.
badge_TitleAlways(o) ==
    LET image == Get(o, "image")
        alt == Get(o, "alt")
        url == Get(o, "url")
        title == Get(o, "title")
        img == IF Truthy(alt)
               THEN Text(<<"<img src=\"", toString(image), "\" alt=\"", toString(alt), "\" />">>)
               ELSE Text(<<"<img src=\"", toString(image), "\" />">>)
    IN IF ~Truthy(image) THEN Throw("image is missing")
       ELSE IF Truthy(url)
       THEN Return(Text(<<"<a href=\"", toString(url), "\" title=\"", toString(title), "\">">>)
                   \o img \o "</a>")
       ELSE Return(img)

badge(o) ==
    LET image == Get(o, "image")
        alt == Get(o, "alt")
        url == Get(o, "url")
        title == Get(o, "title")
        img == IF Truthy(alt)
               THEN Text(<<"<img src=\"", toString(image), "\" alt=\"", toString(alt), "\" />">>)
               ELSE Text(<<"<img src=\"", toString(image), "\" />">>)
    IN IF ~Truthy(image) THEN Throw("image is missing")
       ELSE IF Truthy(url)
       THEN Return((IF Truthy(title)
                    THEN Text(<<"<a href=\"", toString(url), "\" title=\"", toString(title), "\">">>)
                    ELSE Text(<<"<a href=\"", toString(url), "\">">>))
                   \o img \o "</a>")
       ELSE Return(img)

shields(o) ==
    LET left == Get(o, "left")
        right == Get(o, "right")
        color == GetDefault(o, "color", Lit("yellow"))
        image == Lit(Text(<<"https://img.shields.io/badge/", toString(left), "-",
                            toString(right), "-", toString(color), ".svg">>))
    IN IF ~Truthy(left) THEN Throw("left is missing")
       ELSE IF ~Truthy(right) THEN Throw("right is missing")
       ELSE badge([image |-> image, alt |-> Get(o, "alt"), url |-> Get(o, "url"),
                   title |-> Get(o, "title")])

-----------------------------------------------------------------------------
(* Development and testing badges with one required field *)

\* npmversion without its check of npmPackageName.
npmversion_Unchecked(o) ==
    LET npmPackageName == Get(o, "npmPackageName")
        image == Lit(Text(<<"https://img.shields.io/npm/v/", toString(npmPackageName), ".svg">>))
        url == Lit(Text(<<"https://npmjs.org/package/", toString(npmPackageName)>>))
        alt == Lit("NPM version")
        title == Lit("View this project on NPM")
    IN badge([image |-> image, alt |-> alt, url |-> url, title |-> title])

npmversion(o) ==
    LET npmPackageName == Get(o, "npmPackageName")
        image == Lit(Text(<<"https://img.shields.io/npm/v/", toString(npmPackageName), ".svg">>))
        url == Lit(Text(<<"https://npmjs.org/package/", toString(npmPackageName)>>))
        alt == Lit("NPM version")
        title == Lit("View this project on NPM")
    IN IF ~Truthy(npmPackageName) THEN Throw("npmPackageName is missing")
       ELSE badge([image |-> image, alt |-> alt, url |-> url, title |-> title])

npmdownloads(o) ==
    LET npmPackageName == Get(o, "npmPackageName")
        image == Lit(Text(<<"https://img.shields.io/npm/dm/", toString(npmPackageName), ".svg">>))
        url == Lit(Text(<<"https://npmjs.org/package/", toString(npmPackageName)>>))
        alt == Lit("NPM downloads")
        title == Lit("View this project on NPM")
    IN IF ~Truthy(npmPackageName) THEN Throw("npmPackageName is missing")
       ELSE badge([image |-> image, alt |-> alt, url |-> url, title |-> title])

daviddm(o) ==
    LET githubSlug == Get(o, "githubSlug")
        image == Lit(Text(<<"https://img.shields.io/david/", toString(githubSlug), ".svg">>))
        url == Lit(Text(<<"https://david-dm.org/", toString(githubSlug)>>))
        alt == Lit("Dependency Status")
        title == Lit("View the status of this project's dependencies on DavidDM")
    IN IF ~Truthy(githubSlug) THEN Throw("githubSlug is missing")
       ELSE badge([image |-> image, alt |-> alt, url |-> url, title |-> title])

daviddmdev(o) ==
    LET githubSlug == Get(o, "githubSlug")
        image == Lit(Text(<<"https://img.shields.io/david/dev/", toString(githubSlug), ".svg">>))
        url == Lit(Text(<<"https://david-dm.org/", toString(githubSlug), "#info=devDependencies">>))
        alt == Lit("Dev Dependency Status")
        title == Lit("View the status of this project's development dependencies on DavidDM")
    IN IF ~Truthy(githubSlug) THEN Throw("githubSlug is missing")
       ELSE badge([image |-> image, alt |-> alt, url |-> url, title |-> title])

travisci(o) ==
    LET githubSlug == Get(o, "githubSlug")
        image == Lit(Text(<<"https://img.shields.io/travis/", toString(githubSlug), "/master.svg">>))
        url == Lit(Text(<<"http://travis-ci.org/", toString(githubSlug)>>))
        alt == Lit("Travis CI Build Status")
        title == Lit("Check this project's build status on TravisCI")
    IN IF ~Truthy(githubSlug) THEN Throw("githubSlug is missing")
       ELSE badge([image |-> image, alt |-> alt, url |-> url, title |-> title])

coveralls(o) ==
    LET githubSlug == Get(o, "githubSlug")
        image == Lit(Text(<<"https://img.shields.io/coveralls/", toString(githubSlug), ".svg">>))
        url == Lit(Text(<<"https://coveralls.io/r/", toString(githubSlug)>>))
        alt == Lit("Coveralls Coverage Status")
        title == Lit("View this project's coverage on Coveralls")
    IN IF ~Truthy(githubSlug) THEN Throw("githubSlug is missing")
       ELSE badge([image |-> image, alt |-> alt, url |-> url, title |-> title])

codeclimate(o) ==
    LET githubSlug == Get(o, "githubSlug")
        image == Lit(Text(<<"https://img.shields.io/codeclimate/github/", toString(githubSlug), ".svg">>))
        url == Lit(Text(<<"https://codeclimate.com/github/", toString(githubSlug)>>))
        alt == Lit("Code Climate Rating")
        title == Lit("View this project's rating on Code Climate")
    IN IF ~Truthy(githubSlug) THEN Throw("githubSlug is missing")
       ELSE badge([image |-> image, alt |-> alt, url |-> url, title |-> title])

bithound(o) ==
    LET githubSlug == Get(o, "githubSlug")
        image == Lit(Text(<<"https://bithound.io/github/", toString(githubSlug), "/badges/score.svg">>))
        url == Lit(Text(<<"https://bithound.io/github/", toString(githubSlug)>>))
        alt == Lit("BitHound Score")
        title == Lit("View this project's score on BitHound")
    IN IF ~Truthy(githubSlug) THEN Throw("githubSlug is missing")
       ELSE badge([image |-> image, alt |-> alt, url |-> url, title |-> title])

\* nodeico appending '?' and the query without testing that there is one.
nodeico_AlwaysQuery(o) ==
    LET npmPackageName == Get(o, "npmPackageName")
        nodeicoQueryString == Get(o, "nodeicoQueryString")
        url == Lit(Text(<<"https://www.npmjs.com/package/", toString(npmPackageName)>>))
        alt == Lit("Nodei.co badge")
        title == Lit("Nodei.co badge")
        image0 == Text(<<"https://nodei.co/npm/", toString(npmPackageName), ".png">>)
        query == IF TypeOf(nodeicoQueryString) = "object"
                 THEN stringify(nodeicoQueryString)
                 ELSE nodeicoQueryString
        image == Lit(Text(<<image0, "?", toString(Or(query, Lit("")))>>))
    IN IF ~Truthy(npmPackageName) THEN Throw("npmPackageName is missing")
       ELSE IF /\ Truthy(nodeicoQueryString)
               /\ TypeOf(nodeicoQueryString) # "string"
               /\ TypeOf(nodeicoQueryString) # "object"
       THEN Throw("nodeicoQueryString must be a string or an object")
       ELSE badge([image |-> image, alt |-> alt, url |-> url, title |-> title])

nodeico(o) ==
    LET npmPackageName == Get(o, "npmPackageName")
        nodeicoQueryString == Get(o, "nodeicoQueryString")
        url == Lit(Text(<<"https://www.npmjs.com/package/", toString(npmPackageName)>>))
        alt == Lit("Nodei.co badge")
        title == Lit("Nodei.co badge")
        image0 == Text(<<"https://nodei.co/npm/", toString(npmPackageName), ".png">>)
        query == IF TypeOf(nodeicoQueryString) = "object"
                 THEN stringify(nodeicoQueryString)
                 ELSE nodeicoQueryString
        image == IF Truthy(query) THEN Lit(Text(<<image0, "?", toString(query)>>))
                 ELSE Lit(image0)
    IN IF ~Truthy(npmPackageName) THEN Throw("npmPackageName is missing")
       ELSE IF /\ Truthy(nodeicoQueryString)
               /\ TypeOf(nodeicoQueryString) # "string"
               /\ TypeOf(nodeicoQueryString) # "object"
       THEN Throw("nodeicoQueryString must be a string or an object")
       ELSE badge([image |-> image, alt |-> alt, url |-> url, title |-> title])

\* saucelabsbm writing the token into the image URL unescaped.
saucelabsbm_TokenUnescaped(o) ==
    LET saucelabsUsername == Get(o, "saucelabsUsername")
        saucelabsAuthToken == Or(Get(o, "saucelabsAuthToken"), env.SAUCELABS_AUTH_TOKEN)
        image == Lit(Text(<<"https://saucelabs.com/browser-matrix/", toString(saucelabsUsername),
                            ".svg?auth=", toString(saucelabsAuthToken)>>))
        url == Lit(Text(<<"https://saucelabs.com/u/", toString(saucelabsUsername)>>))
        alt == Lit("Sauce Labs Browser Matrix")
        title == Lit("Check this project's browser tests on Sauce Labs")
    IN IF ~Truthy(saucelabsUsername) THEN Throw("saucelabsUsername is missing")
       ELSE IF ~Truthy(saucelabsAuthToken) THEN Throw("saucelabsAuthToken is missing")
       ELSE badge([image |-> image, alt |-> alt, url |-> url, title |-> title])

saucelabsbm(o) ==
    LET saucelabsUsername == Get(o, "saucelabsUsername")
        saucelabsAuthToken == Or(Get(o, "saucelabsAuthToken"), env.SAUCELABS_AUTH_TOKEN)
        image == Lit(Text(<<"https://saucelabs.com/browser-matrix/", toString(saucelabsUsername),
                            ".svg?auth=", toString(escape(saucelabsAuthToken))>>))
        url == Lit(Text(<<"https://saucelabs.com/u/", toString(saucelabsUsername)>>))
        alt == Lit("Sauce Labs Browser Matrix")
        title == Lit("Check this project's browser tests on Sauce Labs")
    IN IF ~Truthy(saucelabsUsername) THEN Throw("saucelabsUsername is missing")
       ELSE IF ~Truthy(saucelabsAuthToken) THEN Throw("saucelabsAuthToken is missing")
       ELSE badge([image |-> image, alt |-> alt, url |-> url, title |-> title])

\* saucelabs letting SAUCELABS_AUTH_TOKEN override an explicit token.
saucelabs_EnvFirst(o) ==
    LET saucelabsUsername == Get(o, "saucelabsUsername")
        saucelabsAuthToken == Or(env.SAUCELABS_AUTH_TOKEN, Get(o, "saucelabsAuthToken"))
        image == Lit(Text(<<"https://saucelabs.com/browser-matrix/", toString(saucelabsUsername),
                            ".svg?auth=", toString(escape(saucelabsAuthToken))>>))
        url == Lit(Text(<<"https://saucelabs.com/u/", toString(saucelabsUsername)>>))
        alt == Lit("Sauce Labs Browser Matrix")
        title == Lit("Check this project's browser tests on Sauce Labs")
    IN IF ~Truthy(saucelabsUsername) THEN Throw("saucelabsUsername is missing")
       ELSE IF ~Truthy(saucelabsAuthToken) THEN Throw("saucelabsAuthToken is missing")
       ELSE badge([image |-> image, alt |-> alt, url |-> url, title |-> title])

saucelabs(o) ==
    LET saucelabsUsername == Get(o, "saucelabsUsername")
        saucelabsAuthToken == Or(Get(o, "saucelabsAuthToken"), env.SAUCELABS_AUTH_TOKEN)
        image == Lit(Text(<<"https://saucelabs.com/browser-matrix/", toString(saucelabsUsername),
                            ".svg?auth=", toString(escape(saucelabsAuthToken))>>))
        url == Lit(Text(<<"https://saucelabs.com/u/", toString(saucelabsUsername)>>))
        alt == Lit("Sauce Labs Browser Matrix")
        title == Lit("Check this project's browser tests on Sauce Labs")
    IN IF ~Truthy(saucelabsUsername) THEN Throw("saucelabsUsername is missing")
       ELSE IF ~Truthy(saucelabsAuthToken) THEN Throw("saucelabsAuthToken is missing")
       ELSE badge([image |-> image, alt |-> alt, url |-> url, title |-> title])

\* codeship checking codeshipProjectID before codeshipProjectUUID.
codeship_IDFirst(o) ==
    LET codeshipProjectUUID == Get(o, "codeshipProjectUUID")
        codeshipProjectID == Get(o, "codeshipProjectID")
        image == Lit(Text(<<"https://img.shields.io/codeship/", toString(codeshipProjectUUID),
                            "/master.svg">>))
        url == Lit(Text(<<"https://www.codeship.io/projects/", toString(codeshipProjectID)>>))
        alt == Lit("Codeship Status")
        title == Lit("Check this project's status on Codeship")
    IN IF ~Truthy(codeshipProjectID) THEN Throw("codeshipProjectID is missing")
       ELSE IF ~Truthy(codeshipProjectUUID) THEN Throw("codeshipProjectUUID is missing")
       ELSE badge([image |-> image, alt |-> alt, url |-> url, title |-> title])

codeship(o) ==
    LET codeshipProjectUUID == Get(o, "codeshipProjectUUID")
        codeshipProjectID == Get(o, "codeshipProjectID")
        image == Lit(Text(<<"https://img.shields.io/codeship/", toString(codeshipProjectUUID),
                            "/master.svg">>))
        url == Lit(Text(<<"https://www.codeship.io/projects/", toString(codeshipProjectID)>>))
        alt == Lit("Codeship Status")
        title == Lit("Check this project's status on Codeship")
    IN IF ~Truthy(codeshipProjectUUID) THEN Throw("codeshipProjectUUID is missing")
       ELSE IF ~Truthy(codeshipProjectID) THEN Throw("codeshipProjectID is missing")
       ELSE badge([image |-> image, alt |-> alt, url |-> url, title |-> title])

waffle(o) ==
    LET githubSlug == Get(o, "githubSlug")
        label == Str(<<"r", "e", "a", "d", "y">>)
        image == Lit(Text(<<"https://badge.waffle.io/", toString(githubSlug), ".png?label=",
                            toString(escape(label))>>))
        url == Lit(Text(<<"http://waffle.io/", toString(githubSlug)>>))
        alt == Lit("Stories in Ready")
        title == Lit("View this project's stories on Waffle.io")
    IN IF ~Truthy(githubSlug) THEN Throw("githubSlug is missing")
       ELSE badge([image |-> image, alt |-> alt, url |-> url, title |-> title])

-----------------------------------------------------------------------------
(* Funding badges *)

sixtydevstips(o) ==
    LET sixtydevstipsID == Get(o, "sixtydevstipsID")
        sixtydevstipsURL == IF ~Truthy(Get(o, "sixtydevstipsURL"))
                    THEN Lit(Text(<<"https://tips.60devs.com/tip/", toString(sixtydevstipsID)>>))
                    ELSE Get(o, "sixtydevstipsURL")
        image == Lit("https://img.shields.io/badge/60devs-donate-yellow.svg")
        url == sixtydevstipsURL
        alt == Lit("60devs tips donate button")
        title == Lit("Donate to this project using 60devs tips")
    IN IF ~Truthy(Get(o, "sixtydevstipsURL")) /\ ~Truthy(sixtydevstipsID)
       THEN Throw("sixtydevstipsID is missing")
       ELSE badge([image |-> image, alt |-> alt, url |-> url, title |-> title])

\* patreon building its link from patreonUsername whenever one is given.
patreon_UsernameFirst(o) ==
    LET patreonUsername == Get(o, "patreonUsername")
        patreonURL == IF Truthy(patreonUsername)
                      THEN Lit(Text(<<"https://patreon.com/", toString(patreonUsername)>>))
                      ELSE Get(o, "patreonURL")
        image == Lit("https://img.shields.io/badge/patreon-donate-yellow.svg")
        url == patreonURL
        alt == Lit("Patreon donate button")
        title == Lit("Donate to this project using Patreon")
    IN IF ~Truthy(Get(o, "patreonURL")) /\ ~Truthy(patreonUsername)
       THEN Throw("patreonUsername is missing")
       ELSE badge([image |-> image, alt |-> alt, url |-> url, title |-> title])

patreon(o) ==
    LET patreonUsername == Get(o, "patreonUsername")
        patreonURL == IF ~Truthy(Get(o, "patreonURL"))
                    THEN Lit(Text(<<"https://patreon.com/", toString(patreonUsername)>>))
                    ELSE Get(o, "patreonURL")
        image == Lit("https://img.shields.io/badge/patreon-donate-yellow.svg")
        url == patreonURL
        alt == Lit("Patreon donate button")
        title == Lit("Donate to this project using Patreon")
    IN IF ~Truthy(Get(o, "patreonURL")) /\ ~Truthy(patreonUsername)
       THEN Throw("patreonUsername is missing")
       ELSE badge([image |-> image, alt |-> alt, url |-> url, title |-> title])

opencollective(o) ==
    LET opencollectiveUsername == Get(o, "opencollectiveUsername")
        opencollectiveURL == IF ~Truthy(Get(o, "opencollectiveURL"))
                    THEN Lit(Text(<<"https://opencollective.com/", toString(opencollectiveUsername)>>))
                    ELSE Get(o, "opencollectiveURL")
        image == Lit("https://img.shields.io/badge/open%20collective-donate-yellow.svg")
        url == opencollectiveURL
        alt == Lit("Open Collective donate button")
        title == Lit("Donate to this project using Open Collective")
    IN IF ~Truthy(Get(o, "opencollectiveURL")) /\ ~Truthy(opencollectiveUsername)
       THEN Throw("opencollectiveUsername is missing")
       ELSE badge([image |-> image, alt |-> alt, url |-> url, title |-> title])

gratipay(o) ==
    LET gratipayUsername == Get(o, "gratipayUsername")
        gratipayURL == IF ~Truthy(Get(o, "gratipayURL"))
                    THEN Lit(Text(<<"https://gratipay.com/", toString(gratipayUsername)>>))
                    ELSE Get(o, "gratipayURL")
        image == Lit("https://img.shields.io/badge/gratipay-donate-yellow.svg")
        url == gratipayURL
        alt == Lit("Gratipay donate button")
        title == Lit("Donate weekly to this project using Gratipay")
    IN IF ~Truthy(Get(o, "gratipayURL")) /\ ~Truthy(gratipayUsername)
       THEN Throw("gratipayUsername is missing")
       ELSE badge([image |-> image, alt |-> alt, url |-> url, title |-> title])

\* flattr preferring flattrCode to flattrUsername.
flattr_CodeFirst(o) ==
    LET flattrCode == Get(o, "flattrCode")
        flattrUsername == Get(o, "flattrUsername")
        flattrURL == IF Truthy(Get(o, "flattrURL")) THEN Get(o, "flattrURL")
                     ELSE IF Truthy(flattrCode)
                     THEN Lit(Text(<<"https://flattr.com/thing/", toString(flattrCode)>>))
                     ELSE Lit(Text(<<"https://flattr.com/profile/", toString(flattrUsername)>>))
        image == Lit("https://img.shields.io/badge/flattr-donate-yellow.svg")
        url == flattrURL
        alt == Lit("Flattr donate button")
        title == Lit("Donate to this project using Flattr")
    IN IF ~Truthy(Get(o, "flattrURL")) /\ ~Truthy(flattrUsername) /\ ~Truthy(flattrCode)
       THEN Throw("flattrUsername/flattrCode is missing")
       ELSE badge([image |-> image, alt |-> alt, url |-> url, title |-> title])

flattr(o) ==
    LET flattrCode == Get(o, "flattrCode")
        flattrUsername == Get(o, "flattrUsername")
        flattrURL == IF Truthy(Get(o, "flattrURL")) THEN Get(o, "flattrURL")
                     ELSE IF Truthy(flattrUsername)
                     THEN Lit(Text(<<"https://flattr.com/profile/", toString(flattrUsername)>>))
                     ELSE Lit(Text(<<"https://flattr.com/thing/", toString(flattrCode)>>))
        image == Lit("https://img.shields.io/badge/flattr-donate-yellow.svg")
        url == flattrURL
        alt == Lit("Flattr donate button")
        title == Lit("Donate to this project using Flattr")
    IN IF ~Truthy(Get(o, "flattrURL")) /\ ~Truthy(flattrUsername) /\ ~Truthy(flattrCode)
       THEN Throw("flattrUsername/flattrCode is missing")
       ELSE badge([image |-> image, alt |-> alt, url |-> url, title |-> title])

\* paypal preferring paypalUsername to paypalButtonID.
paypal_UsernameFirst(o) ==
    LET paypalButtonID == Get(o, "paypalButtonID")
        paypalUsername == Get(o, "paypalUsername")
        paypalURL == IF Truthy(Get(o, "paypalURL")) THEN Get(o, "paypalURL")
                     ELSE IF Truthy(paypalUsername)
                     THEN Lit(Text(<<"https://paypal.me/", toString(paypalUsername)>>))
                     ELSE Lit(Text(<<"https://www.paypal.com/cgi-bin/webscr?cmd=_s-xclick&amp;hosted_button_id=",
                                     toString(escape(paypalButtonID))>>))
        image == Lit("https://img.shields.io/badge/paypal-donate-yellow.svg")
        url == paypalURL
        alt == Lit("PayPal donate button")
        title == Lit("Donate to this project using Paypal")
    IN IF ~Truthy(Get(o, "paypalURL")) /\ ~Truthy(paypalButtonID) /\ ~Truthy(paypalUsername)
       THEN Throw("paypalURL, paypalButtonID, or paypalUsername is missing, at least one must exist")
       ELSE badge([image |-> image, alt |-> alt, url |-> url, title |-> title])

paypal(o) ==
    LET paypalButtonID == Get(o, "paypalButtonID")
        paypalUsername == Get(o, "paypalUsername")
        paypalURL == IF Truthy(Get(o, "paypalURL")) THEN Get(o, "paypalURL")
                     ELSE IF Truthy(paypalButtonID)
                     THEN Lit(Text(<<"https://www.paypal.com/cgi-bin/webscr?cmd=_s-xclick&amp;hosted_button_id=",
                                     toString(escape(paypalButtonID))>>))
                     ELSE Lit(Text(<<"https://paypal.me/", toString(paypalUsername)>>))
        image == Lit("https://img.shields.io/badge/paypal-donate-yellow.svg")
        url == paypalURL
        alt == Lit("PayPal donate button")
        title == Lit("Donate to this project using Paypal")
    IN IF ~Truthy(Get(o, "paypalURL")) /\ ~Truthy(paypalButtonID) /\ ~Truthy(paypalUsername)
       THEN Throw("paypalURL, paypalButtonID, or paypalUsername is missing, at least one must exist")
       ELSE badge([image |-> image, alt |-> alt, url |-> url, title |-> title])

crypto(o) ==
    LET url == Or(Get(o, "cryptoURL"), Get(o, "bitcoinURL"))
        image == Lit("https://img.shields.io/badge/crypto-donate-yellow.svg")
        alt == Lit("crypto donate button")
        title == Lit("Donate to this project using Cryptocurrency")
    IN IF ~Truthy(url) THEN Throw("cryptoURL is missing")
       ELSE badge([image |-> image, alt |-> alt, url |-> url, title |-> title])

\* bitcoin forwarding only cryptoURL.
bitcoin_CryptoURLOnly(opts) ==
    crypto([cryptoURL |-> Get(opts, "cryptoURL")])

bitcoin(opts) ==
    crypto(opts)

wishlist(o) ==
    LET wishlistURL == Get(o, "wishlistURL")
        image == Lit("https://img.shields.io/badge/wishlist-donate-yellow.svg")
        url == wishlistURL
        alt == Lit("Wishlist browse button")
        title == Lit("Buy an item on our wishlist for us")
    IN IF ~Truthy(wishlistURL) THEN Throw("wishlistURL is missing")
       ELSE badge([image |-> image, alt |-> alt, url |-> url, title |-> title])

buymeacoffee(o) ==
    LET buymeacoffeeUsername == Get(o, "buymeacoffeeUsername")
        buymeacoffeeURL == IF ~Truthy(Get(o, "buymeacoffeeURL"))
                    THEN Lit(Text(<<"https://buymeacoffee.com/", toString(buymeacoffeeUsername)>>))
                    ELSE Get(o, "buymeacoffeeURL")
        image == Lit("https://img.shields.io/badge/buy%20me%20a%20coffee-donate-yellow.svg")
        url == buymeacoffeeURL
        alt == Lit("Buy Me A Coffee donate button")
        title == Lit("Donate to this project using Buy Me A Coffee")
    IN IF ~Truthy(Get(o, "buymeacoffeeURL")) /\ ~Truthy(buymeacoffeeUsername)
       THEN Throw("buymeacoffeeUsername is missing")
       ELSE badge([image |-> image, alt |-> alt, url |-> url, title |-> title])

liberapay(o) ==
    LET liberapayUsername == Get(o, "liberapayUsername")
        liberapayURL == IF ~Truthy(Get(o, "liberapayURL"))
                    THEN Lit(Text(<<"https://liberapay.com/", toString(liberapayUsername)>>))
                    ELSE Get(o, "liberapayURL")
        image == Lit("https://img.shields.io/badge/liberapay-donate-yellow.svg")
        url == liberapayURL
        alt == Lit("Liberapay donate button")
        title == Lit("Donate to this project using Liberapay")
    IN IF ~Truthy(Get(o, "liberapayURL")) /\ ~Truthy(liberapayUsername)
       THEN Throw("liberapayUsername is missing")
       ELSE badge([image |-> image, alt |-> alt, url |-> url, title |-> title])

\* thanksapp preferring githubSlug to npmPackageName.
thanksapp_GithubFirst(o) ==
    LET githubSlug == Get(o, "githubSlug")
        npmPackageName == Get(o, "npmPackageName")
        slug == IF Truthy(githubSlug)
                THEN Text(<<"github/", toString(githubSlug)>>)
                ELSE Text(<<"npm/", toString(npmPackageName)>>)
        image == Lit("https://img.shields.io/badge/thanksapp-donate-yellow.svg")
        url == Lit(Text(<<"https://givethanks.app/donate/", slug>>))
        alt == Lit("Thanks App donate button")
        title == Lit("Donate to this project using Thanks App")
    IN IF ~Truthy(githubSlug) /\ ~Truthy(npmPackageName)
       THEN Throw("githubSlug and npmPackageName are missing, at least one is required")
       ELSE badge([image |-> image, alt |-> alt, url |-> url, title |-> title])

thanksapp(o) ==
    LET githubSlug == Get(o, "githubSlug")
        npmPackageName == Get(o, "npmPackageName")
        slug == IF Truthy(npmPackageName)
                THEN Text(<<"npm/", toString(npmPackageName)>>)
                ELSE Text(<<"github/", toString(githubSlug)>>)
        image == Lit("https://img.shields.io/badge/thanksapp-donate-yellow.svg")
        url == Lit(Text(<<"https://givethanks.app/donate/", slug>>))
        alt == Lit("Thanks App donate button")
        title == Lit("Donate to this project using Thanks App")
    IN IF ~Truthy(githubSlug) /\ ~Truthy(npmPackageName)
       THEN Throw("githubSlug and npmPackageName are missing, at least one is required")
       ELSE badge([image |-> image, alt |-> alt, url |-> url, title |-> title])

boostlab(o) ==
    LET githubSlug == Get(o, "githubSlug")
        image == Lit("https://img.shields.io/badge/boostlab-donate-yellow.svg")
        url == Lit(Text(<<"https://boost-lab.app/", toString(githubSlug)>>))
        alt == Lit("Boost Lab donate button")
        title == Lit("Donate to this project using Boost Lab")
    IN IF ~Truthy(githubSlug) THEN Throw("githubSlug is missing")
       ELSE badge([image |-> image, alt |-> alt, url |-> url, title |-> title])

-----------------------------------------------------------------------------
(* Social badges *)

slackinscript(o) ==
    LET slackinURL == Get(o, "slackinURL")
    IN IF ~Truthy(slackinURL) THEN Throw("slackinURL is missing")
       ELSE Return(Text(<<"<script async defer src=\"", toString(slackinURL), "/slackin.js\"></script>">>))

slackin_ImageUnset(o) ==
    LET slackinURL == Get(o, "slackinURL")
        image == Get(o, "image")
        url == slackinURL
        alt == Lit("Slack community badge")
        title == Lit("Join this project's slack community")
    IN IF ~Truthy(slackinURL) THEN Throw("slackinURL is missing")
       ELSE badge([image |-> image, alt |-> alt, url |-> url, title |-> title])

slackin(o) ==
    LET slackinURL == Get(o, "slackinURL")
        image == Lit(Text(<<toString(slackinURL), "/badge.svg">>))
        url == slackinURL
        alt == Lit("Slack community badge")
        title == Lit("Join this project's slack community")
    IN IF ~Truthy(slackinURL) THEN Throw("slackinURL is missing")
       ELSE badge([image |-> image, alt |-> alt, url |-> url, title |-> title])

gabeacon(o) ==
    LET gaTrackingID == Get(o, "gaTrackingID")
        githubSlug == Get(o, "githubSlug")
        image == Lit(Text(<<"https://ga-beacon.appspot.com/", toString(gaTrackingID), "/",
                            toString(githubSlug)>>))
        url == Lit("https://github.com/igrigorik/ga-beacon")
        alt == Lit("Google Analytics beacon image")
        title == Lit("Get Google Analytics for your project")
    IN IF ~Truthy(gaTrackingID) THEN Throw("gaTrackingID is missing")
       ELSE IF ~Truthy(githubSlug) THEN Throw("githubSlug is missing")
       ELSE badge([image |-> image, alt |-> alt, url |-> url, title |-> title])

googleplusone(o) ==
    LET homepage == Get(o, "homepage")
    IN IF ~Truthy(homepage) THEN Throw("homepage is missing")
       ELSE Return(Text(<<"<span class=\"g-plusone\" data-size=\"medium\" data-href=\"", toString(homepage), "\"></span><script>(function() {var po = document.createElement('script'); po.type = 'text/javascript'; po.async = true; po.src = '//apis.google.com/js/plusone.js'; var s = document.getElementsByTagName('script')[0]; s.parentNode.insertBefore(po, s);})();</script>">>))

redditsubmit(o) ==
    LET homepage == Get(o, "homepage")
    IN IF ~Truthy(homepage) THEN Throw("homepage is missing")
       ELSE Return(Text(<<"<script>reddit_url=\"", toString(homepage), "\"</script><script src=\"https://en.reddit.com/static/button/button1.js\"></script>">>))

hackernewssubmit(o) ==
    LET homepage == Get(o, "homepage")
    IN IF ~Truthy(homepage) THEN Throw("homepage is missing")
       ELSE Return(Text(<<"<a href=\"https://news.ycombinator.com/submit\" class=\"hn-button\" data-url=\"", toString(homepage), "\" data-count=\"horizontal\">Vote on Hacker News</a><script>var HN=[];HN.factory=function(e){return function(){HN.push([e].concat(Array.prototype.slice.call(arguments,0)))};},HN.on=HN.factory(\"on\"),HN.once=HN.factory(\"once\"),HN.off=HN.factory(\"off\"),HN.emit=HN.factory(\"emit\"),HN.load=function(){var e=\"hn-button.js\";if(document.getElementById(e))return;var t=document.createElement(\"script\");t.id=e,t.src=\"https://hn-button.herokuapp.com/hn-button.js\";var n=document.getElementsByTagName(\"script\")[0];n.parentNode.insertBefore(t,n)},HN.load();</script>">>))

facebooklike(o) ==
    LET homepage == Get(o, "homepage")
        facebookApplicationID == Or(Get(o, "facebookApplicationID"), env.FACEBOOK_APPLICATION_ID)
    IN IF ~Truthy(homepage) THEN Throw("homepage is missing")
       ELSE IF ~Truthy(facebookApplicationID) THEN Throw("facebookApplicationID is missing")
       ELSE Return(Text(<<"<iframe src=\"https://www.facebook.com/plugins/like.php?href=", toString(escape(homepage)), "&amp;send=false&amp;layout=button_count&amp;width=450&amp;show_faces=false&amp;font&amp;colorscheme=light&amp;action=like&amp;height=21&amp;appId=", toString(escape(facebookApplicationID)), "\" scrolling=\"no\" frameborder=\"0\" style=\"border:none; overflow:hidden; width:450px; height:21px;\" allowTransparency=\"true\"></iframe>">>))

facebookfollow(o) ==
    LET facebookUsername == Get(o, "facebookUsername")
        facebookApplicationID == Or(Get(o, "facebookApplicationID"), env.FACEBOOK_APPLICATION_ID)
    IN IF ~Truthy(facebookUsername) THEN Throw("facebookUsername is missing")
       ELSE IF ~Truthy(facebookApplicationID) THEN Throw("facebookApplicationID is missing")
       ELSE Return(Text(<<"<iframe src=\"https://www.facebook.com/plugins/follow.php?href=https%3A%2F%2Fwww.facebook.com%2F", toString(escape(facebookUsername)), "&amp;layout=button_count&amp;show_faces=false&amp;colorscheme=light&amp;font&amp;width=450&amp;appId=", toString(escape(facebookApplicationID)), "\" scrolling=\"no\" frameborder=\"0\" style=\"border:none; overflow:hidden; width:450px; height: 20px;\" allowTransparency=\"true\"></iframe>">>))

twittertweet(o) ==
    LET twitterUsername == Get(o, "twitterUsername")
    IN IF ~Truthy(twitterUsername) THEN Throw("twitterUsername is missing")
       ELSE Return(Text(<<"<a href=\"https://twitter.com/share\" class=\"twitter-share-button\" data-via=\"", toString(twitterUsername), "\" data-related=\"", toString(twitterUsername), "\">Tweet</a><script>!function(d,s,id){var js,fjs=d.getElementsByTagName(s)[0];if(!d.getElementById(id)){js=d.createElement(s);js.id=id;js.src=\"https://platform.twitter.com/widgets.js\";fjs.parentNode.insertBefore(js,fjs);}}(document,\"script\",\"twitter-wjs\");</script>">>))

twitterfollow(o) ==
    LET twitterUsername == Get(o, "twitterUsername")
    IN IF ~Truthy(twitterUsername) THEN Throw("twitterUsername is missing")
       ELSE Return(Text(<<"<a href=\"https://twitter.com/", toString(escape(twitterUsername)), "\" class=\"twitter-follow-button\" data-show-count=\"false\">Follow @", toString(twitterUsername), "</a><script>!function(d,s,id){var js,fjs=d.getElementsByTagName(s)[0];if(!d.getElementById(id)){js=d.createElement(s);js.id=id;js.src=\"https://platform.twitter.com/widgets.js\";fjs.parentNode.insertBefore(js,fjs);}}(document,\"script\",\"twitter-wjs\");</script>">>))

githubfollow(o) ==
    LET githubUsername == Get(o, "githubUsername")
    IN IF ~Truthy(githubUsername) THEN Throw("githubUsername is missing")
       ELSE Return(Text(<<"<iframe src=\"https://ghbtns.com/github-btn.html?user=", toString(escape(githubUsername)), "&amp;type=follow&amp;count=true\" allowtransparency=\"true\" frameborder=\"0\" scrolling=\"0\" width=\"165\" height=\"20\"></iframe>">>))

\* githubstar checking only the owner part of the slug.
githubstar_RepositoryOnly(o) ==
    LET githubSlug == Get(o, "githubSlug")
        parts == split(githubSlug.val)
        githubUsername == At(parts, 0)
        githubRepository == At(parts, 1)
    IN IF ~Truthy(githubSlug) THEN Throw("githubSlug is missing")
       ELSE IF ~Truthy(githubRepository)
       THEN Throw("githubSlug is invalid")
       ELSE Return(Text(<<"<iframe src=\"https://ghbtns.com/github-btn.html?user=", toString(escape(githubUsername)), "&amp;repo=", toString(escape(githubRepository)), "&amp;type=watch&amp;count=true\" allowtransparency=\"true\" frameborder=\"0\" scrolling=\"0\" width=\"110\" height=\"20\"></iframe>">>))

githubstar(o) ==
    LET githubSlug == Get(o, "githubSlug")
        parts == split(githubSlug.val)
        githubUsername == At(parts, 0)
        githubRepository == At(parts, 1)
    IN IF ~Truthy(githubSlug) THEN Throw("githubSlug is missing")
       ELSE IF ~Truthy(githubUsername) \/ ~Truthy(githubRepository)
       THEN Throw("githubSlug is invalid")
       ELSE Return(Text(<<"<iframe src=\"https://ghbtns.com/github-btn.html?user=", toString(escape(githubUsername)), "&amp;repo=", toString(escape(githubRepository)), "&amp;type=watch&amp;count=true\" allowtransparency=\"true\" frameborder=\"0\" scrolling=\"0\" width=\"110\" height=\"20\"></iframe>">>))

quorafollow(o) ==
    LET quoraUsername == Get(o, "quoraUsername")
        quoraRealname == Or(Get(o, "quoraRealname"), replaceDashes(quoraUsername))
        quoraCode == Or(Get(o, "quoraCode"), Str(<<"7", "N", "3", "1", "X", "J", "s">>))
        template ==
            <<"\n", "\t", "\t", "<span data-name=\"">> \o quoraUsername.val \o <<"\">">>
            \o <<"\n", "\t", "\t", "\t", "Follow <a href=\"http://www.quora.com/">>
            \o quoraUsername.val \o <<"\">">> \o quoraRealname.val
            \o <<"</a> on <a href=\"http://www.quora.com\">Quora</a>">>
            \o <<"\n", "\t", "\t", "\t",
                 "<script src=\"https://www.quora.com/widgets/follow?embed_code=">>
            \o escape(quoraCode).val \o <<"\"></script>">>
            \o <<"\n", "\t", "\t", "</span>">>
    IN IF ~Truthy(quoraUsername) THEN Throw("quoraUsername is missing")
       ELSE Return(Text(stripNewlines(template, FALSE)))

-----------------------------------------------------------------------------
(* The calls a caller can make: each generator with every options object   *)
(* over its parameters.  A parameter is absent (undefined), the empty      *)
(* string, or a non-empty string.                                          *)

\* A parameter the source uses as a whole.
Words(S) ==
    {Undefined, Str(<<>>)} \cup {Lit(w) : w \in S}

\* A parameter the source reads character by character (escape, split, replace).
CharsUpTo(A, n) ==
    {Undefined} \cup {Str(s) : s \in UNION {[1..k -> A] : k \in 0..n}}

Chars(A) ==
    CharsUpTo(A, MaxLen)

\* What process.env can hold for a variable: unset, empty, or a value.
EnvValues ==
    {Undefined, Str(<<>>), Str(<<"e", " ", "1">>)}

\* Objects for nodeicoQueryString: up to MaxKeys properties with distinct keys.
QueryKeys == {<<"a">>, <<"b">>, <<"2">>, <<"1", "0">>}
QueryTexts == {<<>>, <<"1">>, <<"x", " ", "y">>}

QueryObjects ==
    {Obj(props) : props \in
        {p \in UNION {[1..k -> QueryKeys \X QueryTexts] : k \in 0..MaxKeys} :
            \A i, j \in 1..Len(p) : i # j => p[i][1] # p[j][1]}}

QueryValues ==
    {Undefined, Null, Num(0), Num(5), Bool(FALSE), Bool(TRUE)}
    \cup {Str(<<>>), Str(<<"a", "=", "1">>), Str(<<"m", "i", "n", "i">>)}
    \cup QueryObjects

badgeOpts ==
    [image : Words({"x.png"}),
     alt : Words({"A"}),
     url : Words({"http://y"}),
     title : Words({"T"})]

shieldsOpts ==
    [left : Words({"build"}),
     right : Words({"passing"}),
     color : Words({"green"}),
     alt : Words({"A"}),
     url : Words({"http://y"}),
     title : Words({"T"})]

npmversionOpts ==
    [npmPackageName : Words({"foo"})]

npmdownloadsOpts ==
    [npmPackageName : Words({"foo"})]

daviddmOpts ==
    [githubSlug : Words({"bevry/badges"})]

daviddmdevOpts ==
    [githubSlug : Words({"bevry/badges"})]

saucelabsbmOpts ==
    [saucelabsUsername : Words({"bob"}),
     saucelabsAuthToken : Chars({"t", " "})]

saucelabsOpts ==
    [saucelabsUsername : Words({"bob"}),
     saucelabsAuthToken : Chars({"t", " "})]

travisciOpts ==
    [githubSlug : Words({"bevry/badges"})]

codeshipOpts ==
    [codeshipProjectUUID : Words({"uuid"}),
     codeshipProjectID : Words({"12"})]

coverallsOpts ==
    [githubSlug : Words({"bevry/badges"})]

codeclimateOpts ==
    [githubSlug : Words({"bevry/badges"})]

bithoundOpts ==
    [githubSlug : Words({"bevry/badges"})]

waffleOpts ==
    [githubSlug : Words({"bevry/badges"})]

sixtydevstipsOpts ==
    [sixtydevstipsID : Words({"bob", "al"}),
     sixtydevstipsURL : Words({"http://u"})]

patreonOpts ==
    [patreonUsername : Words({"bob", "al"}),
     patreonURL : Words({"http://u"})]

opencollectiveOpts ==
    [opencollectiveUsername : Words({"bob", "al"}),
     opencollectiveURL : Words({"http://u"})]

gratipayOpts ==
    [gratipayUsername : Words({"bob", "al"}),
     gratipayURL : Words({"http://u"})]

flattrOpts ==
    [flattrCode : Words({"344188/x"}),
     flattrUsername : Words({"bob"}),
     flattrURL : Words({"http://u"})]

paypalOpts ==
    [paypalURL : Words({"http://u"}),
     paypalButtonID : Chars({"B", " "}),
     paypalUsername : Words({"bob"})]

cryptoOpts ==
    [cryptoURL : Words({"http://x"}),
     bitcoinURL : Words({"http://b"})]

bitcoinOpts ==
    [cryptoURL : Words({"http://x"}),
     bitcoinURL : Words({"http://b"})]

wishlistOpts ==
    [wishlistURL : Words({"http://w"})]

buymeacoffeeOpts ==
    [buymeacoffeeUsername : Words({"bob", "al"}),
     buymeacoffeeURL : Words({"http://u"})]

liberapayOpts ==
    [liberapayUsername : Words({"bob", "al"}),
     liberapayURL : Words({"http://u"})]

thanksappOpts ==
    [githubSlug : Words({"bevry/badges"}),
     npmPackageName : Words({"foo"})]

boostlabOpts ==
    [githubSlug : Words({"bevry/badges"})]

slackinscriptOpts ==
    [slackinURL : Words({"https://slack.bevry.me"})]

slackinOpts ==
    [slackinURL : Words({"https://slack.bevry.me"})]

gabeaconOpts ==
    [gaTrackingID : Words({"UA-1"}),
     githubSlug : Words({"bevry/badges"})]

googleplusoneOpts ==
    [homepage : Words({"http://h"})]

redditsubmitOpts ==
    [homepage : Words({"http://h"})]

hackernewssubmitOpts ==
    [homepage : Words({"http://h"})]

facebooklikeOpts ==
    [homepage : Chars({"h", ":"}),
     facebookApplicationID : Chars({"7", " "})]

facebookfollowOpts ==
    [facebookUsername : Chars({"f", " "}),
     facebookApplicationID : Chars({"7", " "})]

twittertweetOpts ==
    [twitterUsername : Words({"bob"})]

twitterfollowOpts ==
    [twitterUsername : Chars({"t", " "})]

githubfollowOpts ==
    [githubUsername : Chars({"g", " "})]

githubstarOpts ==
    [githubSlug : CharsUpTo({"a", "b", "/"}, MaxSlug)]

quorafollowOpts ==
    [quoraUsername : Chars({"a", "-", "\n"}),
     quoraRealname : Words({"Al"}),
     quoraCode : {Undefined, Str(<<>>), Str(<<"c", " ">>)}]

nodeicoOpts ==
    [npmPackageName : Words({"foo"}),
     nodeicoQueryString : QueryValues]

-----------------------------------------------------------------------------
(* The properties set on the generators: fn.badgeCategory, fn.badgeScript  *)
(* and saucelabsbm.badgeInline, as module.exports carries them.            *)

Custom == {"badge", "shields"}
Development == {"npmversion", "npmdownloads", "daviddm", "daviddmdev", "nodeico"}
Testing == {"saucelabsbm", "saucelabs", "travisci", "codeship", "coveralls",
            "codeclimate", "bithound", "waffle"}
Funding == {"sixtydevstips", "patreon", "opencollective", "gratipay", "flattr",
            "paypal", "crypto", "bitcoin", "wishlist", "buymeacoffee",
            "liberapay", "thanksapp", "boostlab"}
\* social generators with badgeCategory only
SocialImage == {"slackin", "gabeacon"}
\* social generators with badgeScript = true
SocialScript == {"slackinscript", "googleplusone", "redditsubmit",
                 "hackernewssubmit", "facebooklike", "facebookfollow",
                 "twittertweet", "twitterfollow", "githubfollow", "githubstar",
                 "quorafollow"}

\* The same properties on each of the functions named.
Tag(names, props) ==
    [fn \in names |-> props]

exports_SlackinScript ==
    ("saucelabsbm" :> [badgeCategory |-> "testing", badgeInline |-> FALSE])
    @@ Tag(Custom, [badgeCategory |-> "custom"])
    @@ Tag(Development, [badgeCategory |-> "development"])
    @@ Tag(Testing, [badgeCategory |-> "testing"])
    @@ Tag(Funding, [badgeCategory |-> "funding"])
    @@ Tag({"gabeacon"}, [badgeCategory |-> "social"])
    @@ Tag(SocialScript \cup {"slackin"}, [badgeCategory |-> "social", badgeScript |-> TRUE])

exports ==
    ("saucelabsbm" :> [badgeCategory |-> "testing", badgeInline |-> FALSE])
    @@ Tag(Custom, [badgeCategory |-> "custom"])
    @@ Tag(Development, [badgeCategory |-> "development"])
    @@ Tag(Testing, [badgeCategory |-> "testing"])
    @@ Tag(Funding, [badgeCategory |-> "funding"])
    @@ Tag(SocialImage, [badgeCategory |-> "social"])
    @@ Tag(SocialScript, [badgeCategory |-> "social", badgeScript |-> TRUE])

-----------------------------------------------------------------------------
(* The state machine: a caller that makes one call after another *)

NoCall == [fn |-> "none", opts |-> <<>>]
NoOutcome == [kind |-> "none", value |-> ""]
NoEarlier == [call |-> NoCall, outcome |-> NoOutcome]

Init ==
    /\ env \in [SAUCELABS_AUTH_TOKEN : EnvValues, FACEBOOK_APPLICATION_ID : EnvValues]
    /\ pc = "idle"
    /\ call = NoCall
    /\ outcome = NoOutcome
    /\ earlier = NoEarlier

\* Invoke, had the call removed the token from the environment once read.
Invoke_ConsumesToken(fn, o, result) ==
    /\ pc' = "returned"
    /\ call' = [fn |-> fn, opts |-> o]
    /\ outcome' = result
    /\ env' = IF fn \in {"saucelabs", "saucelabsbm"}
              THEN [env EXCEPT !.SAUCELABS_AUTH_TOKEN = Undefined]
              ELSE env
    /\ UNCHANGED earlier

\* Invoke, had the call stored the token it was given in the environment.
Invoke_ExportsToken(fn, o, result) ==
    /\ pc' = "returned"
    /\ call' = [fn |-> fn, opts |-> o]
    /\ outcome' = result
    /\ env' = IF fn \in {"saucelabs", "saucelabsbm"} /\ Truthy(Get(o, "saucelabsAuthToken"))
              THEN [env EXCEPT !.SAUCELABS_AUTH_TOKEN = Get(o, "saucelabsAuthToken")]
              ELSE env
    /\ UNCHANGED earlier

\* A call of generator fn with options o has ended as result.
Invoke(fn, o, result) ==
    /\ pc' = "returned"
    /\ call' = [fn |-> fn, opts |-> o]
    /\ outcome' = result
    /\ UNCHANGED <<env, earlier>>

Call_badge ==
    /\ pc = "idle"
    /\ \E o \in badgeOpts : Invoke("badge", o, badge(o))

Call_shields ==
    /\ pc = "idle"
    /\ \E o \in shieldsOpts : Invoke("shields", o, shields(o))

Call_npmversion ==
    /\ pc = "idle"
    /\ \E o \in npmversionOpts : Invoke("npmversion", o, npmversion(o))

Call_npmdownloads ==
    /\ pc = "idle"
    /\ \E o \in npmdownloadsOpts : Invoke("npmdownloads", o, npmdownloads(o))

Call_daviddm ==
    /\ pc = "idle"
    /\ \E o \in daviddmOpts : Invoke("daviddm", o, daviddm(o))

Call_daviddmdev ==
    /\ pc = "idle"
    /\ \E o \in daviddmdevOpts : Invoke("daviddmdev", o, daviddmdev(o))

Call_saucelabsbm ==
    /\ pc = "idle"
    /\ \E o \in saucelabsbmOpts : Invoke("saucelabsbm", o, saucelabsbm(o))

Call_saucelabs ==
    /\ pc = "idle"
    /\ \E o \in saucelabsOpts : Invoke("saucelabs", o, saucelabs(o))

Call_travisci ==
    /\ pc = "idle"
    /\ \E o \in travisciOpts : Invoke("travisci", o, travisci(o))

Call_codeship ==
    /\ pc = "idle"
    /\ \E o \in codeshipOpts : Invoke("codeship", o, codeship(o))

Call_coveralls ==
    /\ pc = "idle"
    /\ \E o \in coverallsOpts : Invoke("coveralls", o, coveralls(o))

Call_codeclimate ==
    /\ pc = "idle"
    /\ \E o \in codeclimateOpts : Invoke("codeclimate", o, codeclimate(o))

Call_bithound ==
    /\ pc = "idle"
    /\ \E o \in bithoundOpts : Invoke("bithound", o, bithound(o))

Call_waffle ==
    /\ pc = "idle"
    /\ \E o \in waffleOpts : Invoke("waffle", o, waffle(o))

Call_sixtydevstips ==
    /\ pc = "idle"
    /\ \E o \in sixtydevstipsOpts : Invoke("sixtydevstips", o, sixtydevstips(o))

Call_patreon ==
    /\ pc = "idle"
    /\ \E o \in patreonOpts : Invoke("patreon", o, patreon(o))

Call_opencollective ==
    /\ pc = "idle"
    /\ \E o \in opencollectiveOpts : Invoke("opencollective", o, opencollective(o))

Call_gratipay ==
    /\ pc = "idle"
    /\ \E o \in gratipayOpts : Invoke("gratipay", o, gratipay(o))

Call_flattr ==
    /\ pc = "idle"
    /\ \E o \in flattrOpts : Invoke("flattr", o, flattr(o))

Call_paypal ==
    /\ pc = "idle"
    /\ \E o \in paypalOpts : Invoke("paypal", o, paypal(o))

Call_crypto ==
    /\ pc = "idle"
    /\ \E o \in cryptoOpts : Invoke("crypto", o, crypto(o))

Call_bitcoin ==
    /\ pc = "idle"
    /\ \E o \in bitcoinOpts : Invoke("bitcoin", o, bitcoin(o))

Call_wishlist ==
    /\ pc = "idle"
    /\ \E o \in wishlistOpts : Invoke("wishlist", o, wishlist(o))

Call_buymeacoffee ==
    /\ pc = "idle"
    /\ \E o \in buymeacoffeeOpts : Invoke("buymeacoffee", o, buymeacoffee(o))

Call_liberapay ==
    /\ pc = "idle"
    /\ \E o \in liberapayOpts : Invoke("liberapay", o, liberapay(o))

Call_thanksapp ==
    /\ pc = "idle"
    /\ \E o \in thanksappOpts : Invoke("thanksapp", o, thanksapp(o))

Call_boostlab ==
    /\ pc = "idle"
    /\ \E o \in boostlabOpts : Invoke("boostlab", o, boostlab(o))

Call_slackinscript ==
    /\ pc = "idle"
    /\ \E o \in slackinscriptOpts : Invoke("slackinscript", o, slackinscript(o))

Call_slackin ==
    /\ pc = "idle"
    /\ \E o \in slackinOpts : Invoke("slackin", o, slackin(o))

Call_gabeacon ==
    /\ pc = "idle"
    /\ \E o \in gabeaconOpts : Invoke("gabeacon", o, gabeacon(o))

Call_googleplusone ==
    /\ pc = "idle"
    /\ \E o \in googleplusoneOpts : Invoke("googleplusone", o, googleplusone(o))

Call_redditsubmit ==
    /\ pc = "idle"
    /\ \E o \in redditsubmitOpts : Invoke("redditsubmit", o, redditsubmit(o))

Call_hackernewssubmit ==
    /\ pc = "idle"
    /\ \E o \in hackernewssubmitOpts : Invoke("hackernewssubmit", o, hackernewssubmit(o))

Call_facebooklike ==
    /\ pc = "idle"
    /\ \E o \in facebooklikeOpts : Invoke("facebooklike", o, facebooklike(o))

Call_facebookfollow ==
    /\ pc = "idle"
    /\ \E o \in facebookfollowOpts : Invoke("facebookfollow", o, facebookfollow(o))

Call_twittertweet ==
    /\ pc = "idle"
    /\ \E o \in twittertweetOpts : Invoke("twittertweet", o, twittertweet(o))

Call_twitterfollow ==
    /\ pc = "idle"
    /\ \E o \in twitterfollowOpts : Invoke("twitterfollow", o, twitterfollow(o))

Call_githubfollow ==
    /\ pc = "idle"
    /\ \E o \in githubfollowOpts : Invoke("githubfollow", o, githubfollow(o))

Call_githubstar ==
    /\ pc = "idle"
    /\ \E o \in githubstarOpts : Invoke("githubstar", o, githubstar(o))

Call_quorafollow ==
    /\ pc = "idle"
    /\ \E o \in quorafollowOpts : Invoke("quorafollow", o, quorafollow(o))

Call_nodeico ==
    /\ pc = "idle"
    /\ \E o \in nodeicoOpts : Invoke("nodeico", o, nodeico(o))

\* The caller takes the result (or catches the error) and goes on.
Collect ==
    /\ pc = "returned"
    /\ pc' = "idle"
    /\ call' = NoCall
    /\ outcome' = NoOutcome
    /\ UNCHANGED <<env, earlier>>

Next ==
    \/ Call_badge
    \/ Call_shields
    \/ Call_npmversion
    \/ Call_npmdownloads
    \/ Call_daviddm
    \/ Call_daviddmdev
    \/ Call_saucelabsbm
    \/ Call_saucelabs
    \/ Call_travisci
    \/ Call_codeship
    \/ Call_coveralls
    \/ Call_codeclimate
    \/ Call_bithound
    \/ Call_waffle
    \/ Call_sixtydevstips
    \/ Call_patreon
    \/ Call_opencollective
    \/ Call_gratipay
    \/ Call_flattr
    \/ Call_paypal
    \/ Call_crypto
    \/ Call_bitcoin
    \/ Call_wishlist
    \/ Call_buymeacoffee
    \/ Call_liberapay
    \/ Call_thanksapp
    \/ Call_boostlab
    \/ Call_slackinscript
    \/ Call_slackin
    \/ Call_gabeacon
    \/ Call_googleplusone
    \/ Call_redditsubmit
    \/ Call_hackernewssubmit
    \/ Call_facebooklike
    \/ Call_facebookfollow
    \/ Call_twittertweet
    \/ Call_twitterfollow
    \/ Call_githubfollow
    \/ Call_githubstar
    \/ Call_quorafollow
    \/ Call_nodeico
    \/ Collect

Spec == Init /\ [][Next]_vars

-----------------------------------------------------------------------------
(* A caller that keeps one result and makes the same call again later *)

\* The calls the caller makes a second time: those with every option a
\* one-chunk string (a field the environment stands in for may be unset),
\* and those with no option at all.
Repeatable(o) ==
    \/ \A f \in DOMAIN o : o[f] = Undefined
    \/ \A f \in DOMAIN o :
          \/ o[f].type = "string" /\ Len(o[f].val) = 1
          \/ f \in {"saucelabsAuthToken", "facebookApplicationID"} /\ o[f] = Undefined

\* The caller keeps the call that ended and its outcome, once.
Remember ==
    /\ pc = "returned"
    /\ earlier = NoEarlier
    /\ Repeatable(call.opts)
    /\ earlier' = [call |-> call, outcome |-> outcome]
    /\ pc' = "idle"
    /\ call' = NoCall
    /\ outcome' = NoOutcome
    /\ UNCHANGED env

\* Both variables unset, or both set.
InitTwice ==
    /\ Init
    /\ env.SAUCELABS_AUTH_TOKEN = env.FACEBOOK_APPLICATION_ID
    /\ env.SAUCELABS_AUTH_TOKEN # Str(<<>>)

NextTwice ==
    \/ Next
    \/ Remember

SpecTwice == InitTwice /\ [][NextTwice]_vars

-----------------------------------------------------------------------------
(* What the claims are stated with *)

\* The call of generator fn has ended.
Ended(fn) ==
    pc = "returned" /\ call.fn = fn

\* Option f of the call that ended.
Opt(f) ==
    Get(call.opts, f)

\* v is a non-empty string.
NonEmpty(v) ==
    v.type = "string" /\ Text(v.val) # ""

\* The text of a string value; no text for an absent one.
TextOf(v) ==
    IF v.type = "string" THEN Text(v.val) ELSE ""

\* <img src="src" /> with an alt attribute when alt is not empty.
ImgTag(src, alt) ==
    "<img src=\"" \o src \o "\""
    \o (IF alt # "" THEN " alt=\"" \o alt \o "\"" ELSE "") \o " />"

\* <a href="href">body</a> with a title attribute when title is not empty.
AnchorTag(href, title, body) ==
    "<a href=\"" \o href \o "\""
    \o (IF title # "" THEN " title=\"" \o title \o "\"" ELSE "") \o ">"
    \o body \o "</a>"

\* The call failed with the missing-field error that names field f.
FailsMissing(f) ==
    outcome = Throw(f \o " is missing")

-----------------------------------------------------------------------------
\* C1: badge with a non-empty image returns exactly an <img> tag whose src is
\* image, with an alt attribute iff alt is non-empty, wrapped in <a href=url>
\* iff url is non-empty, the <a> carrying a title iff url and title are both
\* non-empty (a title without a url changes nothing).
C1_BadgeMarkup ==
    (Ended("badge") /\ NonEmpty(Opt("image"))) =>
        LET img == ImgTag(TextOf(Opt("image")), TextOf(Opt("alt")))
        IN outcome = Return(IF NonEmpty(Opt("url"))
                            THEN AnchorTag(TextOf(Opt("url")), TextOf(Opt("title")), img)
                            ELSE img)

\* A title supplied without a url: the result is the bare <img> tag.
C1_Witness ==
    /\ Ended("badge")
    /\ Opt("image") = Lit("x.png") /\ Opt("alt") = Lit("A")
    /\ Opt("url") = Undefined /\ Opt("title") = Lit("T")
    /\ outcome = Return("<img src=\"x.png\" alt=\"A\" />")

-----------------------------------------------------------------------------
\* The fields each generator requires, in the order its parameters declare
\* them.  The generators that resolve a link from alternatives (sixtydevstips,
\* patreon, opencollective, gratipay, flattr, paypal, crypto, bitcoin,
\* buymeacoffee, liberapay, thanksapp) require no single field.
Required ==
    [badge |-> <<"image">>,
     shields |-> <<"left", "right">>,
     npmversion |-> <<"npmPackageName">>,
     npmdownloads |-> <<"npmPackageName">>,
     daviddm |-> <<"githubSlug">>,
     daviddmdev |-> <<"githubSlug">>,
     nodeico |-> <<"npmPackageName">>,
     saucelabsbm |-> <<"saucelabsUsername", "saucelabsAuthToken">>,
     saucelabs |-> <<"saucelabsUsername", "saucelabsAuthToken">>,
     travisci |-> <<"githubSlug">>,
     codeship |-> <<"codeshipProjectUUID", "codeshipProjectID">>,
     coveralls |-> <<"githubSlug">>,
     codeclimate |-> <<"githubSlug">>,
     bithound |-> <<"githubSlug">>,
     waffle |-> <<"githubSlug">>,
     wishlist |-> <<"wishlistURL">>,
     boostlab |-> <<"githubSlug">>,
     slackinscript |-> <<"slackinURL">>,
     slackin |-> <<"slackinURL">>,
     gabeacon |-> <<"gaTrackingID", "githubSlug">>,
     googleplusone |-> <<"homepage">>,
     redditsubmit |-> <<"homepage">>,
     hackernewssubmit |-> <<"homepage">>,
     facebooklike |-> <<"homepage", "facebookApplicationID">>,
     facebookfollow |-> <<"facebookUsername", "facebookApplicationID">>,
     twittertweet |-> <<"twitterUsername">>,
     twitterfollow |-> <<"twitterUsername">>,
     githubfollow |-> <<"githubUsername">>,
     githubstar |-> <<"githubSlug">>,
     quorafollow |-> <<"quoraUsername">>]

RequiredOf(fn) ==
    IF fn \in DOMAIN Required THEN Required[fn] ELSE <<>>

\* The environment variable that stands in for a field.
EnvFallback ==
    [saucelabsAuthToken |-> "SAUCELABS_AUTH_TOKEN",
     facebookApplicationID |-> "FACEBOOK_APPLICATION_ID"]

\* Field f of the call is given: non-empty itself, or through its variable.
Supplied(f) ==
    \/ NonEmpty(Opt(f))
    \/ f \in DOMAIN EnvFallback /\ NonEmpty(env[EnvFallback[f]])

\* A slug owner/repository: split on '/', its first two parts are not empty.
OwnerAndRepository(s) ==
    \E p \in 1..Len(s) :
        /\ s[p] = "/"
        /\ \A j \in 1..(p - 1) : s[j] # "/"
        /\ p > 1
        /\ p < Len(s)
        /\ s[p + 1] # "/"

\* A nodeicoQueryString that is neither a string nor a mapping and is truthy.
WrongQueryType(v) ==
    \/ v.type = "number" /\ v.val # 0
    \/ v.type = "boolean" /\ v.val

\* C2 as stated: for badge (image) and every generator that requires a field
\* F, the other required fields being set: a call with F unset or empty fails
\* with the missing-field error naming F, and a call with F non-empty succeeds.
C2_Original ==
    pc = "returned" =>
        LET req == RequiredOf(call.fn)
        IN \A i \in 1..Len(req) :
              (\A j \in 1..Len(req) : j # i => NonEmpty(Opt(req[j]))) =>
                  IF NonEmpty(Opt(req[i]))
                  THEN outcome.kind = "return"
                  ELSE FailsMissing(req[i])

\* C2 (amended): the other required fields being supplied, a call that leaves
\* F unset or empty (and, for saucelabsAuthToken and facebookApplicationID,
\* whose environment variable is unset or empty too) fails with the
\* missing-field error naming F; a call that supplies F succeeds, except that
\* githubstar fails with 'githubSlug is invalid' on a slug without a non-empty
\* owner and repository, and nodeico with the invalid-type error on a truthy
\* nodeicoQueryString that is neither a string nor a mapping.
C2_RequiredFields ==
    pc = "returned" =>
        LET req == RequiredOf(call.fn)
        IN \A i \in 1..Len(req) :
              (\A j \in 1..Len(req) : j # i => Supplied(req[j])) =>
                  IF ~Supplied(req[i])
                  THEN FailsMissing(req[i])
                  ELSE IF call.fn = "githubstar"
                          /\ ~OwnerAndRepository(Opt("githubSlug").val)
                  THEN outcome = Throw("githubSlug is invalid")
                  ELSE IF call.fn = "nodeico"
                          /\ WrongQueryType(Opt("nodeicoQueryString"))
                  THEN outcome = Throw("nodeicoQueryString must be a string or an object")
                  ELSE outcome.kind = "return"

\* saucelabs with a username, no token and an empty SAUCELABS_AUTH_TOKEN fails
\* naming saucelabsAuthToken.
C2_Witness ==
    /\ Ended("saucelabs")
    /\ NonEmpty(Opt("saucelabsUsername"))
    /\ Opt("saucelabsAuthToken") = Undefined
    /\ env.SAUCELABS_AUTH_TOKEN = Str(<<>>)
    /\ FailsMissing("saucelabsAuthToken")

-----------------------------------------------------------------------------
\* The generators with two required fields.
TwoRequired ==
    {fn \in DOMAIN Required : Len(Required[fn]) = 2}

\* C3: a generator with more than one required field checks them in the
\* declared order and stops at the first failure: when the first field is
\* missing the error names it, whatever the second one is, and when both are
\* missing the error does not name the second.
C3_DeclaredOrder ==
    (pc = "returned" /\ call.fn \in TwoRequired) =>
        LET first == Required[call.fn][1]
            second == Required[call.fn][2]
        IN /\ ~NonEmpty(Opt(first)) => FailsMissing(first)
           /\ (~NonEmpty(Opt(first)) /\ ~NonEmpty(Opt(second))) => ~FailsMissing(second)

\* codeship with both fields missing fails naming codeshipProjectUUID.
C3_Witness ==
    /\ Ended("codeship")
    /\ ~NonEmpty(Opt("codeshipProjectUUID"))
    /\ ~NonEmpty(Opt("codeshipProjectID"))
    /\ outcome = Throw("codeshipProjectUUID is missing")

-----------------------------------------------------------------------------
\* The badge of a funding generator: the service's image and alt text, linked
\* to href with the service's title.
FundingBadge(href, image, alt, title) ==
    Return(AnchorTag(href, title, ImgTag(image, alt)))

\* C4: paypal resolves its link in the order paypalURL > paypalButtonID >
\* paypalUsername: a non-empty paypalURL is the link whatever the other two
\* hold; otherwise a non-empty paypalButtonID gives the hosted-button URL even
\* when paypalUsername is supplied; otherwise a non-empty paypalUsername gives
\* https://paypal.me/<paypalUsername>; with none of the three the call fails
\* with a missing-field error.
C4_PaypalOrder ==
    Ended("paypal") =>
        LET image == "https://img.shields.io/badge/paypal-donate-yellow.svg"
            alt == "PayPal donate button"
            title == "Donate to this project using Paypal"
        IN IF NonEmpty(Opt("paypalURL"))
           THEN outcome = FundingBadge(TextOf(Opt("paypalURL")), image, alt, title)
           ELSE IF NonEmpty(Opt("paypalButtonID"))
           THEN outcome = FundingBadge(
                    "https://www.paypal.com/cgi-bin/webscr?cmd=_s-xclick&amp;hosted_button_id="
                        \o TextOf(escape(Opt("paypalButtonID"))), image, alt, title)
           ELSE IF NonEmpty(Opt("paypalUsername"))
           THEN outcome = FundingBadge("https://paypal.me/" \o TextOf(Opt("paypalUsername")),
                                       image, alt, title)
           ELSE outcome = Throw("paypalURL, paypalButtonID, or paypalUsername is missing, at least one must exist")

\* No paypalURL, a button id and a username: the link is the hosted button's.
C4_Witness ==
    /\ Ended("paypal")
    /\ Opt("paypalURL") = Undefined
    /\ Opt("paypalButtonID") = Str(<<"B", " ", "B">>)
    /\ Opt("paypalUsername") = Lit("bob")
    /\ outcome = FundingBadge(
           "https://www.paypal.com/cgi-bin/webscr?cmd=_s-xclick&amp;hosted_button_id=B%20B",
           "https://img.shields.io/badge/paypal-donate-yellow.svg",
           "PayPal donate button", "Donate to this project using Paypal")

-----------------------------------------------------------------------------
\* C5 as stated: with flattrURL absent, a non-empty flattrCode gives the link
\* https://flattr.com/thing/<flattrCode> even when flattrUsername is supplied;
\* flattrUsername is used only when flattrCode is absent; the call fails when
\* all three are absent.
C5_Original ==
    Ended("flattr") =>
        LET image == "https://img.shields.io/badge/flattr-donate-yellow.svg"
            alt == "Flattr donate button"
            title == "Donate to this project using Flattr"
        IN IF NonEmpty(Opt("flattrURL"))
           THEN outcome = FundingBadge(TextOf(Opt("flattrURL")), image, alt, title)
           ELSE IF NonEmpty(Opt("flattrCode"))
           THEN outcome = FundingBadge("https://flattr.com/thing/" \o TextOf(Opt("flattrCode")),
                                       image, alt, title)
           ELSE IF NonEmpty(Opt("flattrUsername"))
           THEN outcome = FundingBadge("https://flattr.com/profile/" \o TextOf(Opt("flattrUsername")),
                                       image, alt, title)
           ELSE outcome.kind = "throw"

\* C5 (amended): flattr resolves its link in the order flattrURL >
\* flattrUsername > flattrCode: with flattrURL absent and both identifiers
\* supplied the link is https://flattr.com/profile/<flattrUsername>;
\* flattrCode (https://flattr.com/thing/<flattrCode>) is used only when
\* flattrUsername is absent; the call fails when all three are absent.
C5_FlattrOrder ==
    Ended("flattr") =>
        LET image == "https://img.shields.io/badge/flattr-donate-yellow.svg"
            alt == "Flattr donate button"
            title == "Donate to this project using Flattr"
        IN IF NonEmpty(Opt("flattrURL"))
           THEN outcome = FundingBadge(TextOf(Opt("flattrURL")), image, alt, title)
           ELSE IF NonEmpty(Opt("flattrUsername"))
           THEN outcome = FundingBadge("https://flattr.com/profile/" \o TextOf(Opt("flattrUsername")),
                                       image, alt, title)
           ELSE IF NonEmpty(Opt("flattrCode"))
           THEN outcome = FundingBadge("https://flattr.com/thing/" \o TextOf(Opt("flattrCode")),
                                       image, alt, title)
           ELSE outcome = Throw("flattrUsername/flattrCode is missing")

\* No flattrURL, a code and a username: the link is the username's profile.
C5_Witness ==
    /\ Ended("flattr")
    /\ Opt("flattrURL") = Undefined
    /\ Opt("flattrCode") = Lit("344188/x")
    /\ Opt("flattrUsername") = Lit("bob")
    /\ outcome = FundingBadge("https://flattr.com/profile/bob",
                              "https://img.shields.io/badge/flattr-donate-yellow.svg",
                              "Flattr donate button", "Donate to this project using Flattr")

-----------------------------------------------------------------------------
\* The generators that take an explicit URL or one identifier: the two
\* fields, the URL the identifier is put into, and the service's badge.
UrlOrIdentifier ==
    [sixtydevstips |->
        [id |-> "sixtydevstipsID", url |-> "sixtydevstipsURL",
         prefix |-> "https://tips.60devs.com/tip/",
         image |-> "https://img.shields.io/badge/60devs-donate-yellow.svg",
         alt |-> "60devs tips donate button",
         title |-> "Donate to this project using 60devs tips"],
     patreon |->
        [id |-> "patreonUsername", url |-> "patreonURL",
         prefix |-> "https://patreon.com/",
         image |-> "https://img.shields.io/badge/patreon-donate-yellow.svg",
         alt |-> "Patreon donate button",
         title |-> "Donate to this project using Patreon"],
     opencollective |->
        [id |-> "opencollectiveUsername", url |-> "opencollectiveURL",
         prefix |-> "https://opencollective.com/",
         image |-> "https://img.shields.io/badge/open%20collective-donate-yellow.svg",
         alt |-> "Open Collective donate button",
         title |-> "Donate to this project using Open Collective"],
     gratipay |->
        [id |-> "gratipayUsername", url |-> "gratipayURL",
         prefix |-> "https://gratipay.com/",
         image |-> "https://img.shields.io/badge/gratipay-donate-yellow.svg",
         alt |-> "Gratipay donate button",
         title |-> "Donate weekly to this project using Gratipay"],
     buymeacoffee |->
        [id |-> "buymeacoffeeUsername", url |-> "buymeacoffeeURL",
         prefix |-> "https://buymeacoffee.com/",
         image |-> "https://img.shields.io/badge/buy%20me%20a%20coffee-donate-yellow.svg",
         alt |-> "Buy Me A Coffee donate button",
         title |-> "Donate to this project using Buy Me A Coffee"],
     liberapay |->
        [id |-> "liberapayUsername", url |-> "liberapayURL",
         prefix |-> "https://liberapay.com/",
         image |-> "https://img.shields.io/badge/liberapay-donate-yellow.svg",
         alt |-> "Liberapay donate button",
         title |-> "Donate to this project using Liberapay"]]

\* C6: for sixtydevstips, patreon, opencollective, gratipay, buymeacoffee and
\* liberapay: a non-empty URL field is the link's href and the output is the
\* same whatever the identifier; with the URL absent and a non-empty
\* identifier the link is the service's URL template applied to it; with both
\* absent the call fails with the missing-field error naming the identifier.
C6_UrlOverridesIdentifier ==
    (pc = "returned" /\ call.fn \in DOMAIN UrlOrIdentifier) =>
        LET g == UrlOrIdentifier[call.fn]
        IN IF NonEmpty(Opt(g.url))
           THEN outcome = FundingBadge(TextOf(Opt(g.url)), g.image, g.alt, g.title)
           ELSE IF NonEmpty(Opt(g.id))
           THEN outcome = FundingBadge(g.prefix \o TextOf(Opt(g.id)), g.image, g.alt, g.title)
           ELSE FailsMissing(g.id)

\* patreon with both a URL and a username: the link is the URL.
C6_Witness ==
    /\ Ended("patreon")
    /\ Opt("patreonURL") = Lit("http://u")
    /\ Opt("patreonUsername") = Lit("bob")
    /\ outcome = FundingBadge("http://u", "https://img.shields.io/badge/patreon-donate-yellow.svg",
                              "Patreon donate button", "Donate to this project using Patreon")

-----------------------------------------------------------------------------
\* The generators with a secret field that an environment variable can stand
\* in for: the other required field, the secret field and its variable.
SecretField ==
    [saucelabsbm |-> [other |-> "saucelabsUsername", field |-> "saucelabsAuthToken",
                      variable |-> "SAUCELABS_AUTH_TOKEN"],
     saucelabs |-> [other |-> "saucelabsUsername", field |-> "saucelabsAuthToken",
                    variable |-> "SAUCELABS_AUTH_TOKEN"],
     facebooklike |-> [other |-> "homepage", field |-> "facebookApplicationID",
                       variable |-> "FACEBOOK_APPLICATION_ID"],
     facebookfollow |-> [other |-> "facebookUsername", field |-> "facebookApplicationID",
                         variable |-> "FACEBOOK_APPLICATION_ID"]]

\* The Sauce Labs badge of user first, authorised by the escaped token secret.
SauceLabsBadge(first, secret) ==
    AnchorTag("https://saucelabs.com/u/" \o first,
              "Check this project's browser tests on Sauce Labs",
              ImgTag("https://saucelabs.com/browser-matrix/" \o first \o ".svg?auth=" \o secret,
                     "Sauce Labs Browser Matrix"))

\* The like button for the escaped page first under the escaped application id secret.
FacebookLikeFrame(first, secret) ==
    "<iframe src=\"https://www.facebook.com/plugins/like.php?href="
    \o first
    \o "&amp;send=false&amp;layout=button_count&amp;width=450&amp;show_faces=false&amp;font&amp;colorscheme=light&amp;action=like&amp;height=21&amp;appId="
    \o secret
    \o "\" scrolling=\"no\" frameborder=\"0\" style=\"border:none; overflow:hidden; width:450px; height:21px;\" allowTransparency=\"true\"></iframe>"

\* The follow button for the escaped user first under the escaped application id secret.
FacebookFollowFrame(first, secret) ==
    "<iframe src=\"https://www.facebook.com/plugins/follow.php?href=https%3A%2F%2Fwww.facebook.com%2F"
    \o first
    \o "&amp;layout=button_count&amp;show_faces=false&amp;colorscheme=light&amp;font&amp;width=450&amp;appId="
    \o secret
    \o "\" scrolling=\"no\" frameborder=\"0\" style=\"border:none; overflow:hidden; width:450px; height: 20px;\" allowTransparency=\"true\"></iframe>"

\* What generator fn returns for its other field and the secret it settles on.
SecretOutput(fn, other, secret) ==
    CASE fn \in {"saucelabsbm", "saucelabs"} ->
            SauceLabsBadge(TextOf(other), TextOf(escape(secret)))
      [] fn = "facebooklike" ->
            FacebookLikeFrame(TextOf(escape(other)), TextOf(escape(secret)))
      [] fn = "facebookfollow" ->
            FacebookFollowFrame(TextOf(escape(other)), TextOf(escape(secret)))

\* C7: for saucelabs and saucelabsbm (saucelabsAuthToken, SAUCELABS_AUTH_TOKEN)
\* and facebooklike and facebookfollow (facebookApplicationID,
\* FACEBOOK_APPLICATION_ID), the other required field being set: a non-empty
\* field determines the output whatever the environment holds; the variable is
\* used only when the field is unset or empty; and the call fails with the
\* missing-field error naming the field iff field and variable are both unset
\* or empty.
C7_EnvironmentFallback ==
    (pc = "returned" /\ call.fn \in DOMAIN SecretField /\ NonEmpty(Opt(SecretField[call.fn].other))) =>
        LET g == SecretField[call.fn]
        IN IF NonEmpty(Opt(g.field))
           THEN outcome = Return(SecretOutput(call.fn, Opt(g.other), Opt(g.field)))
           ELSE IF NonEmpty(env[g.variable])
           THEN outcome = Return(SecretOutput(call.fn, Opt(g.other), env[g.variable]))
           ELSE FailsMissing(g.field)

\* saucelabs with an explicit token while SAUCELABS_AUTH_TOKEN holds another
\* value: the badge carries the explicit token.
C7_Witness ==
    /\ Ended("saucelabs")
    /\ Opt("saucelabsUsername") = Lit("bob")
    /\ Opt("saucelabsAuthToken") = Str(<<"t", " ", "t">>)
    /\ env.SAUCELABS_AUTH_TOKEN = Str(<<"e", " ", "1">>)
    /\ outcome = Return(SauceLabsBadge("bob", "t%20t"))

-----------------------------------------------------------------------------
\* C8: githubstar splits githubSlug on '/': a non-empty slug succeeds iff it
\* has the form owner/repository with both parts non-empty, and fails with
\* 'githubSlug is invalid' otherwise (no '/', empty owner, empty repository);
\* an absent or empty slug fails with the missing-field error instead.
C8_GithubstarSlug ==
    Ended("githubstar") =>
        IF ~NonEmpty(Opt("githubSlug")) THEN FailsMissing("githubSlug")
        ELSE IF OwnerAndRepository(Opt("githubSlug").val) THEN outcome.kind = "return"
        ELSE outcome = Throw("githubSlug is invalid")

\* The slug "a/" has an owner and no repository: the call fails as invalid.
C8_Witness ==
    /\ Ended("githubstar")
    /\ Opt("githubSlug") = Str(<<"a", "/">>)
    /\ outcome = Throw("githubSlug is invalid")

-----------------------------------------------------------------------------
\* C9: bitcoin is an alias of crypto: for every options object (cryptoURL and
\* bitcoinURL each present or absent) bitcoin ends as crypto ends on it, with
\* the same string or the same error.
C9_BitcoinIsCrypto ==
    Ended("bitcoin") => outcome = crypto(call.opts)

\* bitcoin with only bitcoinURL returns the crypto badge linked to it.
C9_Witness ==
    /\ Ended("bitcoin")
    /\ Opt("cryptoURL") = Undefined
    /\ Opt("bitcoinURL") = Lit("http://b")
    /\ outcome = FundingBadge("http://b", "https://img.shields.io/badge/crypto-donate-yellow.svg",
                              "crypto donate button", "Donate to this project using Cryptocurrency")

-----------------------------------------------------------------------------
\* The nodeico badge of package name with image URL image.
NodeicoBadge(name, image) ==
    Return(AnchorTag("https://www.npmjs.com/package/" \o name, "Nodei.co badge",
                     ImgTag(image, "Nodei.co badge")))

\* key=value of the properties at the positions order, joined by '&', key
\* and value percent-escaped as querystring.escape does.
RECURSIVE PairsText(_, _)
PairsText(props, order) ==
    IF order = <<>> THEN ""
    ELSE LET key == props[Head(order)][1]
             value == props[Head(order)][2]
         IN qsEscape(key) \o "=" \o qsEscape(value)
                \o (IF Tail(order) = <<>> THEN "" ELSE "&")
                \o PairsText(props, Tail(order))

\* The order the properties were inserted in.
InsertedOrder(props) ==
    [i \in 1..Len(props) |-> i]

\* Property a comes before property b when an object's keys are listed: index
\* keys first, by number, then the other keys as inserted.
ListedBefore(props, a, b) ==
    LET ka == props[a][1]
        kb == props[b][1]
    IN IF IsIndexKey(ka) /\ IsIndexKey(kb) THEN KeyNumber(ka) < KeyNumber(kb)
       ELSE IF IsIndexKey(ka) THEN TRUE
       ELSE IF IsIndexKey(kb) THEN FALSE
       ELSE a < b

ListedOrder(props) ==
    CHOOSE order \in [1..Len(props) -> 1..Len(props)] :
        \A i, j \in 1..Len(props) : i < j => ListedBefore(props, order[i], order[j])

\* C10 as stated: nodeico with a non-empty npmPackageName: a mapping gives the
\* image URL https://nodei.co/npm/<name>.png?k1=v1&k2=v2 with the pairs
\* key=value (URL-escaped) in the mapping's insertion order; a non-empty
\* string is appended verbatim after '?'; absent, the empty string or an empty
\* mapping append no '?'.
C10_Original ==
    (Ended("nodeico") /\ NonEmpty(Opt("npmPackageName"))) =>
        LET name == TextOf(Opt("npmPackageName"))
            image == "https://nodei.co/npm/" \o name \o ".png"
            query == Opt("nodeicoQueryString")
        IN CASE query.type = "object" /\ query.val # <<>> ->
                    outcome = NodeicoBadge(name,
                        image \o "?" \o PairsText(query.val, InsertedOrder(query.val)))
             [] NonEmpty(query) ->
                    outcome = NodeicoBadge(name, image \o "?" \o TextOf(query))
             [] query = Undefined \/ query = Str(<<>>) \/ query = Obj(<<>>) ->
                    outcome = NodeicoBadge(name, image)
             [] OTHER -> TRUE

\* C10 (amended): as stated, for a mapping of keys to strings, except that
\* the pairs follow the order in which the object lists its own keys:
\* array-index keys ("2", "10") first in ascending numeric order, then the
\* other keys in insertion order; each key and each value is percent-escaped
\* as querystring.escape does (every character other than
\* A-Z a-z 0-9 - _ . ! ~ * ' ( ) becomes %XX).
C10_NodeicoQuery ==
    (Ended("nodeico") /\ NonEmpty(Opt("npmPackageName"))) =>
        LET name == TextOf(Opt("npmPackageName"))
            image == "https://nodei.co/npm/" \o name \o ".png"
            query == Opt("nodeicoQueryString")
        IN CASE query.type = "object" /\ query.val # <<>> ->
                    outcome = NodeicoBadge(name,
                        image \o "?" \o PairsText(query.val, ListedOrder(query.val)))
             [] NonEmpty(query) ->
                    outcome = NodeicoBadge(name, image \o "?" \o TextOf(query))
             [] query = Undefined \/ query = Str(<<>>) \/ query = Obj(<<>>) ->
                    outcome = NodeicoBadge(name, image)
             [] OTHER -> TRUE

\* The mapping {a: "x y", 2: "1"}: the index key comes first and the space is
\* escaped.
C10_Witness ==
    /\ Ended("nodeico")
    /\ Opt("npmPackageName") = Lit("foo")
    /\ Opt("nodeicoQueryString") = Obj(<< <<(<<"a">>), <<"x", " ", "y">> >>, <<(<<"2">>), (<<"1">>)>> >>)
    /\ outcome = NodeicoBadge("foo", "https://nodei.co/npm/foo.png?2=1&a=x%20y")

-----------------------------------------------------------------------------
\* C11: nodeico (with a non-empty npmPackageName) fails with the error
\* 'nodeicoQueryString must be a string or an object' for every supplied
\* nodeicoQueryString that is a number or a boolean, 0 and false included,
\* and never returns a badge for such a value.
C11_InvalidQueryType ==
    (/\ Ended("nodeico")
     /\ NonEmpty(Opt("npmPackageName"))
     /\ Opt("nodeicoQueryString").type \in {"number", "boolean"}) =>
        outcome = Throw("nodeicoQueryString must be a string or an object")

-----------------------------------------------------------------------------
-----------------------------------------------------------------------------
-----------------------------------------------------------------------------
\* What the exported generator named fn returns for options o when it is
\* called in the present environment.
CalledAlone(fn, o) ==
    CASE fn = "badge" -> badge(o)
      [] fn = "shields" -> shields(o)
      [] fn = "npmversion" -> npmversion(o)
      [] fn = "npmdownloads" -> npmdownloads(o)
      [] fn = "daviddm" -> daviddm(o)
      [] fn = "daviddmdev" -> daviddmdev(o)
      [] fn = "saucelabsbm" -> saucelabsbm(o)
      [] fn = "saucelabs" -> saucelabs(o)
      [] fn = "travisci" -> travisci(o)
      [] fn = "codeship" -> codeship(o)
      [] fn = "coveralls" -> coveralls(o)
      [] fn = "codeclimate" -> codeclimate(o)
      [] fn = "bithound" -> bithound(o)
      [] fn = "waffle" -> waffle(o)
      [] fn = "sixtydevstips" -> sixtydevstips(o)
      [] fn = "patreon" -> patreon(o)
      [] fn = "opencollective" -> opencollective(o)
      [] fn = "gratipay" -> gratipay(o)
      [] fn = "flattr" -> flattr(o)
      [] fn = "paypal" -> paypal(o)
      [] fn = "crypto" -> crypto(o)
      [] fn = "bitcoin" -> bitcoin(o)
      [] fn = "wishlist" -> wishlist(o)
      [] fn = "buymeacoffee" -> buymeacoffee(o)
      [] fn = "liberapay" -> liberapay(o)
      [] fn = "thanksapp" -> thanksapp(o)
      [] fn = "boostlab" -> boostlab(o)
      [] fn = "slackinscript" -> slackinscript(o)
      [] fn = "slackin" -> slackin(o)
      [] fn = "gabeacon" -> gabeacon(o)
      [] fn = "googleplusone" -> googleplusone(o)
      [] fn = "redditsubmit" -> redditsubmit(o)
      [] fn = "hackernewssubmit" -> hackernewssubmit(o)
      [] fn = "facebooklike" -> facebooklike(o)
      [] fn = "facebookfollow" -> facebookfollow(o)
      [] fn = "twittertweet" -> twittertweet(o)
      [] fn = "twitterfollow" -> twitterfollow(o)
      [] fn = "githubfollow" -> githubfollow(o)
      [] fn = "githubstar" -> githubstar(o)
      [] fn = "quorafollow" -> quorafollow(o)
      [] fn = "nodeico" -> nodeico(o)

-----------------------------------------------------------------------------
\* The closed set of category tags.
Categories == {"custom", "development", "testing", "funding", "social"}

\* The generators that return their fragment themselves, without badge.
LiteralScript ==
    {"slackinscript", "googleplusone", "redditsubmit", "hackernewssubmit",
     "facebooklike", "facebookfollow", "twittertweet", "twitterfollow",
     "githubfollow", "githubstar", "quorafollow"}

\* Function fn carries the script-emitting flag.
Marked(fn) ==
    "badgeScript" \in DOMAIN exports[fn] /\ exports[fn].badgeScript = TRUE

\* C15: every exported generator that is called carries a category tag, one
\* of custom, development, testing, funding and social, and carries the
\* script-emitting flag iff it is one of the eleven literal-script
\* generators; every generator that delegates to badge is unmarked.
C15_CategoryAndScriptFlag ==
    pc = "returned" =>
        /\ call.fn \in DOMAIN exports
        /\ "badgeCategory" \in DOMAIN exports[call.fn]
        /\ exports[call.fn].badgeCategory \in Categories
        /\ Marked(call.fn) <=> call.fn \in LiteralScript

\* saucelabsbm, which delegates to badge and carries badgeInline = false,
\* has the category testing and no script flag.
C15_Witness ==
    /\ Ended("saucelabsbm")
    /\ outcome = Return(SauceLabsBadge("bob", "t"))
    /\ exports[call.fn] = [badgeCategory |-> "testing", badgeInline |-> FALSE]
    /\ ~Marked(call.fn)

-----------------------------------------------------------------------------
\* C16: saucelabs and saucelabsbm behave alike: for every saucelabsUsername,
\* saucelabsAuthToken and value of SAUCELABS_AUTH_TOKEN, a call of either
\* ends as the other ends on the same options, with the byte-identical
\* badge or the same error.
C16_SaucelabsSameAsBm ==
    /\ Ended("saucelabs") => outcome = saucelabsbm(call.opts)
    /\ Ended("saucelabsbm") => outcome = saucelabs(call.opts)

\* saucelabsbm with the token from the environment returns the badge that
\* saucelabs returns.
C16_Witness ==
    /\ Ended("saucelabsbm")
    /\ Opt("saucelabsUsername") = Lit("bob")
    /\ Opt("saucelabsAuthToken") = Str(<<>>)
    /\ env.SAUCELABS_AUTH_TOKEN = Str(<<"e", " ", "1">>)
    /\ outcome = Return(SauceLabsBadge("bob", "e%201"))
    /\ outcome = saucelabs(call.opts)

-----------------------------------------------------------------------------
\* The Thanks App badge linked to href.
ThanksBadge(href) ==
    FundingBadge(href, "https://img.shields.io/badge/thanksapp-donate-yellow.svg",
                 "Thanks App donate button", "Donate to this project using Thanks App")

\* C17: thanksapp fails with its missing-field error iff githubSlug and
\* npmPackageName are both absent or empty; with a non-empty npmPackageName
\* the link is https://givethanks.app/donate/npm/<npmPackageName> whatever
\* githubSlug holds, and the link is
\* https://givethanks.app/donate/github/<githubSlug> only when npmPackageName
\* is absent or empty.
C17_ThanksappOrder ==
    Ended("thanksapp") =>
        /\ (outcome.kind = "throw") <=>
               (~NonEmpty(Opt("githubSlug")) /\ ~NonEmpty(Opt("npmPackageName")))
        /\ outcome.kind = "throw" =>
               outcome = Throw("githubSlug and npmPackageName are missing, at least one is required")
        /\ NonEmpty(Opt("npmPackageName")) =>
               outcome = ThanksBadge("https://givethanks.app/donate/npm/"
                                     \o TextOf(Opt("npmPackageName")))
        /\ (~NonEmpty(Opt("npmPackageName")) /\ NonEmpty(Opt("githubSlug"))) =>
               outcome = ThanksBadge("https://givethanks.app/donate/github/"
                                     \o TextOf(Opt("githubSlug")))

\* Both identifiers supplied: the link is the npm one.
C17_Witness ==
    /\ Ended("thanksapp")
    /\ Opt("githubSlug") = Lit("bevry/badges")
    /\ Opt("npmPackageName") = Lit("foo")
    /\ outcome = ThanksBadge("https://givethanks.app/donate/npm/foo")

====
